---- MODULE Spec2Model ----
(***************************************************************************)
(* A model of app.py, the Fashion Textile accounting dashboard:            *)
(*   - search_dataframe, the row filter every data page uses;              *)
(*   - the Home page's session management and analysis_stream;             *)
(*   - load_csv_data (memoised by st.cache_data) and the seven data pages. *)
(* Strings are sequences of one-character strings, so that conversion to   *)
(* text, lower-casing and pattern matching are computed, not assumed.      *)
(* Library behaviour is that of pandas 2.x, Python's re and Streamlit, the *)
(* libraries app.py imports.                                               *)
(***************************************************************************)
EXTENDS Integers, Sequences, FiniteSets, TLC

VARIABLES
    \* ---- search_dataframe ----
    df,              \* the table handed to search_dataframe
    search_term,     \* the query
    search_columns,  \* the scope: None or a list of column names
    filtered,        \* what the last call returned or raised
    ncalls,          \* how many times the filter has been applied in a row
    \* ---- Home page: st.session_state and analysis_stream ----
    session_state,   \* st.session_state
    placeholder,     \* the st.empty() placeholder of the response
    st_messages,     \* page-level elements written by the last handler
    response_text,   \* analysis_stream's local response_text
    stream,          \* position of analysis_stream: none/open/done/failed
    remote,          \* remote API calls issued by the last handler
    created,         \* number of assistants created so far
    last_start,      \* outcome of the most recent start_session
    started_ok,      \* some start_session has succeeded
    last_action,     \* the last user action on the Home page
    \* ---- load_csv_data and the data pages ----
    cache,           \* st.cache_data's entries of load_csv_data
    view,            \* what the last page render displayed
    last_load        \* the last load_csv_data call: its argument and what it did

searchVars  == <<df, search_term, search_columns, filtered, ncalls>>
sessionVars == <<session_state, placeholder, st_messages, response_text, stream,
                 remote, created, last_start, started_ok, last_action>>
pageVars    == <<cache, view, last_load>>
vars        == <<searchVars, sessionVars, pageVars>>

(***************************************************************************)
(* Bounds of the model.                                                    *)
(***************************************************************************)
MaxRows == 2
MaxQueryLen == 2
MaxCalls == 2
MaxAssistants == 2
MaxFragments == 2
MaxCached == 2

(***************************************************************************)
(* Text.                                                                   *)
(***************************************************************************)
\* search_columns=None, and a list given for it
None == [none |-> TRUE, cols |-> <<>>]
Columns(cols) == [none |-> FALSE, cols |-> cols]

\* str.lower / re.IGNORECASE folding, on the characters the model uses.
Lower(ch) ==
    CASE ch = "A" -> "a"
      [] ch = "N" -> "n"
      [] ch = "T" -> "t"
      [] ch = "F" -> "f"
      [] OTHER -> ch

Digit(d) ==
    CASE d = 0 -> "0" [] d = 1 -> "1" [] d = 2 -> "2" [] d = 3 -> "3"
      [] d = 4 -> "4" [] d = 5 -> "5" [] d = 6 -> "6" [] d = 7 -> "7"
      [] d = 8 -> "8" [] OTHER -> "9"

RECURSIVE IntStr(_)
IntStr(n) == IF n < 10 THEN <<Digit(n)>> ELSE IntStr(n \div 10) \o <<Digit(n % 10)>>

(***************************************************************************)
(* Cells and tables.  A cell is text, a float64 (held in tenths), a bool   *)
(* or missing (NaN).  A table has a set of columns and an ordered list of  *)
(* rows; each row carries its index label, as a pandas DataFrame does.     *)
(***************************************************************************)
Txt(s)  == [t |-> "str",   s |-> s,    x |-> 0]
Flt(x)  == [t |-> "float", s |-> <<>>, x |-> x]
Bool(b) == [t |-> "bool",  s |-> <<>>, x |-> IF b THEN 1 ELSE 0]
NaN     == [t |-> "nan",   s |-> <<>>, x |-> 0]

\* str(value), as Series.astype(str) applies it to each element: a missing
\* value becomes the text "nan".
astype_str(cell) ==
    CASE cell.t = "str"   -> cell.s
      [] cell.t = "float" -> IntStr(cell.x \div 10) \o <<".">> \o <<Digit(cell.x % 10)>>
      [] cell.t = "bool"  -> IF cell.x = 1 THEN <<"T", "r", "u", "e">>
                                           ELSE <<"F", "a", "l", "s", "e">>
      [] OTHER            -> <<"n", "a", "n">>

\* pd.DataFrame()
EmptyDataFrame == [columns |-> {}, rows |-> <<>>]

\* DataFrame.empty: some axis has length 0
df_empty(d) == d.columns = {} \/ Len(d.rows) = 0

(***************************************************************************)
(* Python's re, for the patterns the model's queries can spell: ordinary   *)
(* characters, '.', a postfix '*', and '(' (which never closes here).      *)
(***************************************************************************)
\* re.compile: the pattern as a list of items, or an error.
RECURSIVE ReParse(_, _, _)
ReParse(pat, i, acc) ==
    IF i > Len(pat) THEN [ok |-> TRUE, items |-> acc]
    ELSE IF pat[i] = "(" THEN [ok |-> FALSE, items |-> <<>>]  \* missing ), unterminated subpattern
    ELSE IF pat[i] = "*" THEN [ok |-> FALSE, items |-> <<>>]  \* nothing to repeat / multiple repeat
    ELSE IF i < Len(pat) /\ pat[i + 1] = "*"
         THEN ReParse(pat, i + 2, Append(acc, [c |-> pat[i], star |-> TRUE]))
         ELSE ReParse(pat, i + 1, Append(acc, [c |-> pat[i], star |-> FALSE]))

re_compile(pat) == ReParse(pat, 1, <<>>)

\* One pattern character against one text character, under re.IGNORECASE.
AtomMatches(c, ch) == c = "." \/ Lower(c) = Lower(ch)

RECURSIVE MatchAt(_, _, _, _)
MatchAt(items, k, text, pos) ==
    IF k > Len(items) THEN TRUE
    ELSE IF items[k].star
         THEN \/ MatchAt(items, k + 1, text, pos)
              \/ /\ pos <= Len(text)
                 /\ AtomMatches(items[k].c, text[pos])
                 /\ MatchAt(items, k, text, pos + 1)
         ELSE /\ pos <= Len(text)
              /\ AtomMatches(items[k].c, text[pos])
              /\ MatchAt(items, k + 1, text, pos + 1)

\* pattern.search(text) is not None
re_search(items, text) == \E pos \in 1..(Len(text) + 1) : MatchAt(items, 1, text, pos)

\* Series.str.contains(pat, case=False, na=na) on one element (regex=True is
\* the default): a missing element gives na, any other the pattern search.
str_contains(cell, items, na) ==
    IF cell.t = "nan" THEN na ELSE re_search(items, cell.s)

(***************************************************************************)
(* search_dataframe                                                        *)
(***************************************************************************)
\* df[col].astype(str).str.contains(search_term, case=False, na=False):
\* a boolean Series on df's index, here label -> BOOLEAN.
ColumnMatches(d, col, items) ==
    [l \in {d.rows[i].idx : i \in 1..Len(d.rows)} |->
        \E i \in 1..Len(d.rows) :
            /\ d.rows[i].idx = l
            /\ str_contains(Txt(astype_str(d.rows[i].c[col])), items, FALSE)]

\* mask |= other: the operands are aligned on the union of their labels, a
\* label absent from one side counting as False there, and the result is
\* reindexed to mask's own labels (NDFrame._inplace_method).
MaskIor(mask, other) ==
    [l \in DOMAIN mask |-> mask[l] \/ (l \in DOMAIN other /\ other[l])]

\* The loop of lines 201-203 over search_columns[k..].
RECURSIVE MaskLoop(_, _, _, _, _)
MaskLoop(d, cols, k, items, mask) ==
    IF k > Len(cols) THEN mask
    ELSE IF cols[k] \in d.columns
         THEN MaskLoop(d, cols, k + 1, items, MaskIor(mask, ColumnMatches(d, cols[k], items)))
         ELSE MaskLoop(d, cols, k + 1, items, mask)

\* df.columns as the list the loop iterates when search_columns is None.
RECURSIVE SetToSeq(_)
SetToSeq(S) ==
    IF S = {} THEN <<>>
    ELSE LET x == CHOOSE y \in S : TRUE IN <<x>> \o SetToSeq(S \ {x})

\* df[mask]: the boolean Series is reindexed to df's index; a label of df
\* that mask lacks raises IndexingError.
BoolIndex(d, mask) ==
    IF \E i \in 1..Len(d.rows) : d.rows[i].idx \notin DOMAIN mask
    THEN [kind |-> "IndexingError", df |-> EmptyDataFrame]
    ELSE [kind |-> "ok",
          df |-> [columns |-> d.columns,
                  rows |-> SelectSeq(d.rows, LAMBDA r : mask[r.idx])]]

search_dataframe(d, term, columns) ==
    IF df_empty(d) \/ term = <<>> THEN [kind |-> "ok", df |-> d]
    ELSE LET cols == IF columns.none THEN SetToSeq(d.columns) ELSE columns.cols
             pat  == re_compile(term)
             mask == [l \in 0..(Len(d.rows) - 1) |-> FALSE]
         IN  IF (\E k \in 1..Len(cols) : cols[k] \in d.columns) /\ ~pat.ok
             THEN [kind |-> "re.error", df |-> EmptyDataFrame]
             ELSE BoolIndex(d, MaskLoop(d, cols, 1, pat.items, mask))

(***************************************************************************)
(* The inputs of search_dataframe: tables as pd.read_csv returns them      *)
(* (labels 0..n-1), queries and scopes.                                    *)
(***************************************************************************)
SearchColumnNames == {"Name", "Balance"}
NameCells    == {Txt(<<"A", "n">>), Txt(<<"b">>), NaN}
BalanceCells == {Flt(15), NaN}
SearchCells  == [Name : NameCells, Balance : BalanceCells]

\* A list of cell records as a table with a RangeIndex.
RangeIndexed(columns, cells) ==
    [columns |-> columns,
     rows |-> [i \in 1..Len(cells) |-> [idx |-> i - 1, c |-> cells[i]]]]

SeqsUpTo(S, n) == UNION {[1..k -> S] : k \in 0..n}

SearchTables ==
    {EmptyDataFrame}
      \cup {RangeIndexed(SearchColumnNames, cells) : cells \in SeqsUpTo(SearchCells, MaxRows)}

QueryChars == {"a", "N", ".", "*", "("}
Queries == SeqsUpTo(QueryChars, MaxQueryLen)

ScopeNames == {"Name", "Balance", "Memo"}
Scopes ==
    {None} \cup {Columns(<<a>>) : a \in ScopeNames}
           \cup {Columns(p) : p \in {q \in ScopeNames \X ScopeNames : q[1] # q[2]}}

NotCalled == [kind |-> "none", df |-> EmptyDataFrame]

(***************************************************************************)
(* Home page: upload_files_to_openai, start_session, analysis_stream.      *)
(***************************************************************************)
csv_files == <<"accounts.csv", "invoices.csv", "bills.csv", "expenses.csv">>

\* os.getenv("OPENAI_API_KEY") or st.secrets.get("OPENAI_API_KEY"): a key,
\* no key, or st.secrets raising because there is no secrets file.
KeyStates == {"key", "nokey", "nosecrets"}

\* Where the remote service fails during a handler: nowhere (0) or at its
\* k-th remote call.
Call(op, arg) == [op |-> op, arg |-> arg]

Element(kind, msg, text) == [kind |-> kind, msg |-> msg, text |-> text]
NoElement == Element("empty", "", <<>>)
Cursor == "|"

\* The uploads of lines 29-41, from file k on: the calls issued and the ids
\* collected, stopping at the upload that raises (failAt counts the calls).
RECURSIVE UploadLoop(_, _, _, _, _)
UploadLoop(k, existing, failAt, calls, ids) ==
    IF k > Len(csv_files) THEN [raised |-> FALSE, calls |-> calls, ids |-> ids]
    ELSE IF csv_files[k] \notin existing THEN UploadLoop(k + 1, existing, failAt, calls, ids)
    ELSE IF failAt = Len(calls) + 1
         THEN [raised |-> TRUE, calls |-> Append(calls, Call("files.create", k)), ids |-> ids]
         ELSE UploadLoop(k + 1, existing, failAt,
                         Append(calls, Call("files.create", k)), Append(ids, csv_files[k]))

\* upload_files_to_openai(): (assistant id or 0 for None, file ids), the
\* st.error it shows and the remote calls it issued.  newId is the id the
\* service gives the assistant it creates.
upload_files_to_openai(key, existing, failAt, newId) ==
    IF key = "nokey"
    THEN [assistant_id |-> 0, file_ids |-> <<>>, calls |-> <<>>, made |-> FALSE,
          error |-> <<Element("error", "OpenAI API key not found", <<>>)>>]
    ELSE IF key = "nosecrets"
    THEN [assistant_id |-> 0, file_ids |-> <<>>, calls |-> <<>>, made |-> FALSE,
          error |-> <<Element("error", "Error uploading files", <<>>)>>]
    ELSE LET up == UploadLoop(1, existing, failAt, <<>>, <<>>)
         IN  IF up.raised
             THEN [assistant_id |-> 0, file_ids |-> <<>>, calls |-> up.calls, made |-> FALSE,
                   error |-> <<Element("error", "Error uploading files", <<>>)>>]
             ELSE IF failAt = Len(up.calls) + 1
             THEN [assistant_id |-> 0, file_ids |-> <<>>, made |-> FALSE,
                   calls |-> Append(up.calls, Call("assistants.create", 0)),
                   error |-> <<Element("error", "Error uploading files", <<>>)>>]
             ELSE [assistant_id |-> newId, file_ids |-> up.ids, made |-> TRUE,
                   calls |-> Append(up.calls, Call("assistants.create", newId)),
                   error |-> <<>>]

\* start_session(): the new st.session_state and the message returned.
start_session(ss, up) ==
    LET active == [ss EXCEPT !.keys = @ \cup {"session_active"}, !.session_active = TRUE]
    IN  IF up.assistant_id # 0 /\ up.file_ids # <<>>
        THEN [state |-> [active EXCEPT
                            !.keys = @ \cup {"openai_assistant_id", "openai_file_ids"},
                            !.openai_assistant_id = up.assistant_id,
                            !.openai_file_ids = up.file_ids],
              message |-> "Session started successfully",
              ok |-> TRUE]
        ELSE [state |-> active,
              message |-> "Session started but failed to create assistant or upload files",
              ok |-> FALSE]

\* Lines 244-245: the Home page initialises session_active.
InitSessionState(ss) ==
    IF "session_active" \in ss.keys THEN ss
    ELSE [ss EXCEPT !.keys = @ \cup {"session_active"}, !.session_active = FALSE]

\* Mutant of NoAssistant: the guard tests the session flag instead of the
\* assistant handle.
NoAssistant_flag(ss) ==
    "session_active" \notin ss.keys \/ ~ss.session_active

\* Line 74: "openai_assistant_id" not in st.session_state or not its value
NoAssistant(ss) ==
    "openai_assistant_id" \notin ss.keys \/ ss.openai_assistant_id = 0

\* analysis_stream(text, placeholder) up to the opening of the run's stream:
\* the placeholder's content, the page-level errors, the remote calls, and
\* whether the stream is open.
analysis_stream(ss, key, failAt) ==
    IF NoAssistant(ss)
    THEN [placeholder |-> Element("error", "Please start a session first", <<>>),
          messages |-> <<>>, calls |-> <<>>, stream |-> "none"]
    ELSE IF key = "nokey"
    THEN [placeholder |-> Element("error", "OpenAI API key not found", <<>>),
          messages |-> <<>>, calls |-> <<>>, stream |-> "none"]
    ELSE LET all == <<Call("threads.create", 0), Call("messages.create", 0),
                      Call("runs.stream", ss.openai_assistant_id)>>
             n   == IF key = "nosecrets" THEN 0
                    ELSE IF failAt \in 1..3 THEN failAt ELSE 3
             raised == key = "nosecrets" \/ failAt \in 1..3
         IN  IF raised
             THEN [placeholder |-> Element("error", "Error analyzing text", <<>>),
                   messages |-> <<Element("error", "Full error details", <<>>)>>,
                   calls |-> SubSeq(all, 1, n), stream |-> "failed"]
             ELSE [placeholder |-> Element("info", "Analyzing your data", <<>>),
                   messages |-> <<>>, calls |-> all, stream |-> "open"]

(***************************************************************************)
(* load_csv_data and the data pages.                                       *)
(***************************************************************************)
Pages == {"Accounts", "Services", "Customers", "Invoices", "Vendors", "Bills", "Expenses"}

\* The file each page loads (lines 315, 352, 389, 426, 469, 506, 549).
FileOf(page) ==
    CASE page = "Accounts"  -> "accounts.csv"
      [] page = "Services"  -> "services.csv"
      [] page = "Customers" -> "customers.csv"
      [] page = "Invoices"  -> "invoices.csv"
      [] page = "Vendors"   -> "vendors.csv"
      [] page = "Bills"     -> "bills.csv"
      [] OTHER              -> "expenses.csv"

Files == {FileOf(page) : page \in Pages}

\* The columns the metrics of a file's page read.
MetricColumns(file) ==
    CASE file = "accounts.csv"  -> {"Active", "current_balance"}
      [] file = "services.csv"  -> {"Active", "UnitPrice"}
      [] file = "customers.csv" -> {"Active", "Balance"}
      [] file = "invoices.csv"  -> {"TotalAmt", "Balance"}
      [] file = "vendors.csv"   -> {"Active", "Balance"}
      [] file = "bills.csv"     -> {"TotalAmt", "Balance"}
      [] OTHER                  -> {"TotalAmt", "PaymentType"}

\* What a file of anonymized_data/ may hold: nothing ("absent"), a table
\* with every column its page reads ("full"), or one with the Name column
\* only ("partial").
FileKinds == {"absent", "full", "partial"}

SampleCell(col, i) ==
    CASE col = "Name"        -> IF i = 1 THEN Txt(<<"A", "n">>) ELSE Txt(<<"b">>)
      [] col = "Active"      -> Bool(i = 1)
      [] col = "PaymentType" -> IF i = 1 THEN Txt(<<"a">>) ELSE NaN
      [] col = "Balance"     -> IF i = 1 THEN NaN ELSE Flt(25)
      [] OTHER               -> IF i = 1 THEN Flt(15) ELSE Flt(20)

SampleTable(columns) ==
    RangeIndexed(columns, [i \in 1..2 |-> [col \in columns |-> SampleCell(col, i)]])

\* pd.read_csv(filepath) of a file that exists.
read_csv(file, kind) ==
    IF kind = "full" THEN SampleTable({"Name"} \cup MetricColumns(file))
                     ELSE SampleTable({"Name"})

NotFoundMessage == Element("error", "File not found in anonymized_data folder", <<>>)

NoEntry == [present |-> FALSE, value |-> EmptyDataFrame, messages |-> <<>>]

\* Mutant of load_csv_body: the not-found branch returns the empty table
\* without the st.error.
load_csv_body_silent(file, kind) ==
    IF kind # "absent"
    THEN [value |-> read_csv(file, kind), messages |-> <<>>, read |-> TRUE]
    ELSE [value |-> EmptyDataFrame, messages |-> <<>>, read |-> FALSE]

\* The body of load_csv_data (lines 184-189), `kind` being what the file
\* holds when the body runs: the table returned, the st.error shown, and
\* whether the file was read.
load_csv_body(file, kind) ==
    IF kind # "absent"
    THEN [value |-> read_csv(file, kind), messages |-> <<>>, read |-> TRUE]
    ELSE [value |-> EmptyDataFrame, messages |-> <<NotFoundMessage>>, read |-> FALSE]

\* Mutant of load_csv_data: the decorator is missing, the body runs on
\* every call.
load_csv_data_uncached(c, file, kind) ==
    LET r == load_csv_body(file, kind)
    IN  [value |-> r.value, messages |-> r.messages,
         cache |-> [c EXCEPT ![file] =
                       [present |-> TRUE, value |-> r.value, messages |-> r.messages]],
         hit |-> FALSE, exists |-> IF kind = "absent" THEN "no" ELSE "yes",
         read |-> r.read]

\* load_csv_data(filename) under @st.cache_data: an entry stored for the
\* argument is returned (its recorded elements replayed) without running
\* the body; otherwise the body runs and its result is stored.  Entries
\* have no ttl and no max_entries.
load_csv_data(c, file, kind) ==
    IF c[file].present
    THEN [value |-> c[file].value, messages |-> c[file].messages, cache |-> c,
          hit |-> TRUE, exists |-> "unchecked", read |-> FALSE]
    ELSE LET r == load_csv_body(file, kind)
         IN  [value |-> r.value, messages |-> r.messages,
              cache |-> [c EXCEPT ![file] =
                            [present |-> TRUE, value |-> r.value, messages |-> r.messages]],
              hit |-> FALSE, exists |-> IF kind = "absent" THEN "no" ELSE "yes",
              read |-> r.read]

\* Series.sum() of a float64 column, in tenths: missing values are skipped.
RECURSIVE SumRows(_, _, _)
SumRows(rows, col, k) ==
    IF k > Len(rows) THEN 0
    ELSE (IF rows[k].c[col].t = "float" THEN rows[k].c[col].x ELSE 0) + SumRows(rows, col, k + 1)

column_sum(d, col) == SumRows(d.rows, col, 1)

\* The number of values of the column that are not missing.
column_count(d, col) == Cardinality({k \in 1..Len(d.rows) : d.rows[k].c[col].t # "nan"})

\* f"${x:,.2f}" of a float held in hundredths (below 1000, so no comma).
Dollars(h) ==
    <<"$">> \o IntStr(h \div 100) \o <<".">> \o <<Digit((h \div 10) % 10), Digit(h % 10)>>

\* f"${Series.mean():.2f}": the mean of the values present, nan if none.
MeanText(d, col) ==
    IF column_count(d, col) = 0 THEN <<"$", "n", "a", "n">>
    ELSE Dollars((column_sum(d, col) * 10) \div column_count(d, col))

NotApplicable == <<"N", "/", "A">>

\* df[df['Active'] == True].shape[0] if 'Active' in df.columns else 0
active_count(d) ==
    IF "Active" \in d.columns
    THEN IntStr(Cardinality({k \in 1..Len(d.rows) : d.rows[k].c["Active"] = Bool(TRUE)}))
    ELSE IntStr(0)

\* df[col].sum() if col in df.columns else 0, shown as f"${...:,.2f}"
sum_or_zero(d, col) ==
    IF col \in d.columns THEN Dollars(column_sum(d, col) * 10) ELSE Dollars(0)

\* df['UnitPrice'].mean() if 'UnitPrice' in df.columns else 0, as f"${...:.2f}"
mean_or_zero(d, col) ==
    IF col \in d.columns THEN MeanText(d, col) ELSE Dollars(0)

\* The if/else of lines 449-453: the sum in dollars, or "N/A"
sum_or_na(d, col) ==
    IF col \in d.columns THEN Dollars(column_sum(d, col) * 10) ELSE NotApplicable

\* Lines 578-582: df['PaymentType'].nunique(), or "N/A"
nunique_or_na(d, col) ==
    IF col \in d.columns
    THEN IntStr(Cardinality({d.rows[k].c[col] : k \in 1..Len(d.rows)} \ {NaN}))
    ELSE NotApplicable

Metric(label, value) == [label |-> label, value |-> value]

\* The three st.metric calls of each page, computed from the loaded table.
page_metrics(page, d) ==
    CASE page = "Accounts" ->
           <<Metric("Total Accounts", IntStr(Len(d.rows))),
             Metric("Active Accounts", active_count(d)),
             Metric("Total Balance", sum_or_zero(d, "current_balance"))>>
      [] page = "Services" ->
           <<Metric("Total Services", IntStr(Len(d.rows))),
             Metric("Active Services", active_count(d)),
             Metric("Avg Unit Price", mean_or_zero(d, "UnitPrice"))>>
      [] page = "Customers" ->
           <<Metric("Total Customers", IntStr(Len(d.rows))),
             Metric("Active Customers", active_count(d)),
             Metric("Total A/R Balance", sum_or_zero(d, "Balance"))>>
      [] page = "Invoices" ->
           <<Metric("Total Invoices", IntStr(Len(d.rows))),
             Metric("Total Invoice Amount", sum_or_na(d, "TotalAmt")),
             Metric("Outstanding Balance", sum_or_na(d, "Balance"))>>
      [] page = "Vendors" ->
           <<Metric("Total Vendors", IntStr(Len(d.rows))),
             Metric("Active Vendors", active_count(d)),
             Metric("Total A/P Balance", sum_or_zero(d, "Balance"))>>
      [] page = "Bills" ->
           <<Metric("Total Bills", IntStr(Len(d.rows))),
             Metric("Total Bill Amount", sum_or_na(d, "TotalAmt")),
             Metric("Outstanding Balance", sum_or_na(d, "Balance"))>>
      [] OTHER ->
           <<Metric("Total Expenses", IntStr(Len(d.rows))),
             Metric("Total Expense Amount", sum_or_na(d, "TotalAmt")),
             Metric("Payment Methods", nunique_or_na(d, "PaymentType"))>>

\* What a page shows: the elements load_csv_data wrote, then either the
\* "No ... data available" error, or the table and the metrics, or the
\* exception search_dataframe raised (the script stops there).
View(page, state, messages, found, table, metrics) ==
    [page |-> page, state |-> state, messages |-> messages, found |-> found,
     table |-> table, metrics |-> metrics]

NoView == View("", "none", <<>>, -1, EmptyDataFrame, <<>>)

\* One data page's script (e.g. lines 310-344), given what load_csv_data
\* returned and the text in the search box.
render_page(page, loaded, term) ==
    IF df_empty(loaded.value)
    THEN View(page, "nodata", loaded.messages, -1, EmptyDataFrame, <<>>)
    ELSE IF term = <<>>
    THEN View(page, "data", loaded.messages, -1, loaded.value, page_metrics(page, loaded.value))
    ELSE LET res == search_dataframe(loaded.value, term, None)
         IN  IF res.kind = "ok"
             THEN View(page, "data", loaded.messages, Len(res.df.rows), res.df,
                       page_metrics(page, loaded.value))
             ELSE View(page, "exception", loaded.messages, -1, EmptyDataFrame, <<>>)

(***************************************************************************)
(* States and actions.                                                     *)
(***************************************************************************)
\* A fresh process: empty st.session_state, nothing displayed, empty cache.
FreshSessionState ==
    [keys |-> {}, session_active |-> FALSE, openai_assistant_id |-> 0,
     openai_file_ids |-> <<>>]

SearchIdle ==
    /\ df = EmptyDataFrame
    /\ search_term = <<>>
    /\ search_columns = None
    /\ filtered = NotCalled
    /\ ncalls = 0

SessionIdle ==
    /\ session_state = FreshSessionState
    /\ placeholder = NoElement
    /\ st_messages = <<>>
    /\ response_text = <<>>
    /\ stream = "none"
    /\ remote = <<>>
    /\ created = 0
    /\ last_start = "none"
    /\ started_ok = FALSE
    /\ last_action = "none"

NoLoad ==
    [file |-> "", hit |-> FALSE, exists |-> "unchecked", read |-> FALSE,
     value |-> EmptyDataFrame, messages |-> <<>>]

PagesIdle ==
    /\ cache = [f \in Files |-> NoEntry]
    /\ view = NoView
    /\ last_load = NoLoad

\* ---- search_dataframe applied to a table, then to its own result ----
InitSearch ==
    /\ df \in SearchTables
    /\ search_term \in Queries
    /\ search_columns \in Scopes
    /\ filtered = NotCalled
    /\ ncalls = 0
    /\ SessionIdle
    /\ PagesIdle

Search ==
    /\ ncalls < MaxCalls
    /\ ncalls = 0 \/ filtered.kind = "ok"
    /\ LET input == IF ncalls = 0 THEN df ELSE filtered.df
       IN  /\ df' = input
           /\ filtered' = search_dataframe(input, search_term, search_columns)
    /\ ncalls' = ncalls + 1
    /\ UNCHANGED <<search_term, search_columns, sessionVars, pageVars>>

NextSearch == Search

SpecSearch == InitSearch /\ [][NextSearch]_vars

\* ---- the Home page ----
InitSession == SearchIdle /\ SessionIdle /\ PagesIdle

\* No handler is running: Streamlit runs one script run at a time.
Idle == stream # "open"

SessionActive == "session_active" \in session_state.keys /\ session_state.session_active

\* The Home page is opened or re-rendered without a button pressed.
HomeRender ==
    /\ Idle
    /\ session_state' = InitSessionState(session_state)
    /\ placeholder' = NoElement
    /\ st_messages' = <<>>
    /\ remote' = <<>>
    /\ stream' = "none"
    /\ last_action' = "home"
    /\ UNCHANGED <<response_text, created, last_start, started_ok, searchVars, pageVars>>

\* "Start Session" is pressed (lines 248-252): it is shown while
\* session_active is false.
StartSession(key, existing, failAt) ==
    /\ Idle
    /\ "session_active" \in session_state.keys
    /\ ~session_state.session_active
    /\ LET up  == upload_files_to_openai(key, existing, failAt, created + 1)
           res == start_session(session_state, up)
       IN  /\ up.made => created < MaxAssistants
           /\ session_state' = res.state
           /\ st_messages' = up.error \o <<Element("success", res.message, <<>>)>>
           /\ remote' = up.calls
           /\ created' = IF up.made THEN created + 1 ELSE created
           /\ last_start' = IF res.ok THEN "ok" ELSE "failed"
           /\ started_ok' = (started_ok \/ res.ok)
    /\ placeholder' = NoElement
    /\ stream' = "none"
    /\ last_action' = "start"
    /\ UNCHANGED <<response_text, searchVars, pageVars>>

\* "End Session" is pressed (lines 255-258): it is shown while
\* session_active is true.
EndSession ==
    /\ Idle
    /\ SessionActive
    /\ session_state' = [session_state EXCEPT !.session_active = FALSE]
    /\ st_messages' = <<Element("info", "Session ended", <<>>)>>
    /\ placeholder' = NoElement
    /\ remote' = <<>>
    /\ stream' = "none"
    /\ last_action' = "end"
    /\ UNCHANGED <<response_text, created, last_start, started_ok, searchVars, pageVars>>

\* "Analyze" is pressed (lines 266-282): the button is enabled while
\* session_active is true.  With text entered, analysis_stream runs up to
\* the opening of the stream.
Analyze(hasText, key, failAt) ==
    /\ Idle
    /\ SessionActive
    /\ IF hasText
       THEN LET r == analysis_stream(session_state, key, failAt)
            IN  /\ placeholder' = r.placeholder
                /\ st_messages' = r.messages
                /\ remote' = r.calls
                /\ stream' = r.stream
                /\ last_action' = "analyze"
       ELSE /\ placeholder' = NoElement
            /\ st_messages' = <<Element("warning", "Please enter some text to analyze", <<>>)>>
            /\ remote' = <<>>
            /\ stream' = "none"
            /\ last_action' = "analyze_empty"
    /\ response_text' = <<>>
    /\ UNCHANGED <<session_state, created, last_start, started_ok, searchVars, pageVars>>

\* The text fragments a thread.message.delta event may carry.
Fragments == {<<>>, <<"o">>, <<"k", "!">>}

\* One event of the stream (lines 104-114): a text delta with a value is
\* appended and shown with the cursor; any other event is skipped.
StreamEvent(isText, fragment) ==
    /\ stream = "open"
    /\ Len(response_text) < MaxFragments
    /\ IF isText /\ fragment # <<>>
       THEN /\ response_text' = response_text \o fragment
            /\ placeholder' = Element("markdown", "", response_text' \o <<Cursor>>)
       ELSE UNCHANGED <<response_text, placeholder>>
    /\ UNCHANGED <<session_state, st_messages, stream, remote, created, last_start,
                   started_ok, last_action, searchVars, pageVars>>

\* The stream ends (lines 116-120).
StreamEnd ==
    /\ stream = "open"
    /\ placeholder' = IF response_text # <<>>
                      THEN Element("markdown", "", response_text)
                      ELSE Element("success", "Analysis completed!", <<>>)
    /\ stream' = "done"
    /\ UNCHANGED <<session_state, st_messages, response_text, remote, created, last_start,
                   started_ok, last_action, searchVars, pageVars>>

\* The stream raises (lines 122-124).
StreamFail ==
    /\ stream = "open"
    /\ placeholder' = Element("error", "Error analyzing text", <<>>)
    /\ st_messages' = Append(st_messages, Element("error", "Full error details", <<>>))
    /\ stream' = "failed"
    /\ UNCHANGED <<session_state, response_text, remote, created, last_start,
                   started_ok, last_action, searchVars, pageVars>>

NextSession ==
    \/ HomeRender
    \/ \E key \in KeyStates, existing \in SUBSET {csv_files[k] : k \in 1..Len(csv_files)},
          failAt \in 0..(Len(csv_files) + 1) : StartSession(key, existing, failAt)
    \/ EndSession
    \/ \E hasText \in BOOLEAN, key \in KeyStates, failAt \in 0..3 : Analyze(hasText, key, failAt)
    \/ \E isText \in BOOLEAN, fragment \in Fragments : StreamEvent(isText, fragment)
    \/ StreamEnd
    \/ StreamFail

SpecSession == InitSession /\ [][NextSession]_vars

\* ---- the data pages ----
InitPages == SearchIdle /\ SessionIdle /\ PagesIdle

PageTerms == {<<>>, <<"a">>, <<"(">>}

\* A data page is rendered with `term` in its search box; `kind` is what
\* the page's file holds at that moment (anonymized_data/ may change
\* between renders).  At most MaxCached datasets are loaded in a run.
PageVisit(page, term, kind) ==
    /\ \/ cache[FileOf(page)].present
       \/ Cardinality({f \in Files : cache[f].present}) < MaxCached
    /\ LET loaded == load_csv_data(cache, FileOf(page), kind)
       IN  /\ cache' = loaded.cache
           /\ last_load' = [file |-> FileOf(page), hit |-> loaded.hit,
                            exists |-> loaded.exists, read |-> loaded.read,
                            value |-> loaded.value, messages |-> loaded.messages]
           /\ view' = render_page(page, loaded, term)
    /\ UNCHANGED <<searchVars, sessionVars>>

NextPages ==
    \E page \in Pages, term \in PageTerms, kind \in FileKinds : PageVisit(page, term, kind)

SpecPages == InitPages /\ [][NextPages]_vars

(***************************************************************************)
(* Properties of search_dataframe (under SpecSearch).                      *)
(***************************************************************************)
\* q occurs in text as a substring, ignoring case.
LiteralContains(text, q) ==
    \E i \in 0..(Len(text) - Len(q)) :
        \A j \in 1..Len(q) : Lower(text[i + j]) = Lower(q[j])

\* The scoped columns that exist in the table.
ScopedColumns(d, columns) ==
    IF columns.none THEN d.columns
    ELSE {columns.cols[k] : k \in 1..Len(columns.cols)} \cap d.columns

\* Some scoped column of the row has a textual form that contains q.
RowHasLiteral(d, r, q, columns) ==
    \E col \in ScopedColumns(d, columns) : LiteralContains(astype_str(r.c[col]), q)

\* A query with no character that a regular expression reads as syntax.
PlainQuery(q) == q # <<>> /\ \A i \in 1..Len(q) : q[i] \notin {".", "*", "("}

\* C1: for a non-empty table as loaded, a non-empty query and any scope,
\* search_dataframe returns exactly the rows in which some scoped, existing
\* column's text contains the query as a case-insensitive substring.
C1_ExactLiteralFilter ==
    (ncalls = 1 /\ ~df_empty(df) /\ search_term # <<>>) =>
        /\ filtered.kind = "ok"
        /\ filtered.df.rows =
              SelectSeq(df.rows, LAMBDA r : RowHasLiteral(df, r, search_term, search_columns))

\* C2: matching is literal substring containment for every query: the
\* query is never read as a pattern (so the call never fails to compile
\* it), and every row returned contains the query's characters literally.
C2_LiteralMatchOnly ==
    (ncalls >= 1 /\ ~df_empty(df) /\ search_term # <<>>) =>
        /\ filtered.kind # "re.error"
        /\ filtered.kind = "ok" =>
              \A k \in 1..Len(filtered.df.rows) :
                  RowHasLiteral(df, filtered.df.rows[k], search_term, search_columns)

\* C3: a missing cell never counts as a match: for a query of ordinary
\* characters (such as "an" or "n"), every row returned has a scoped cell
\* that is not missing, and the filter of a loaded table does not fail.
C3_MissingNeverMatches ==
    (ncalls = 1 /\ ~df_empty(df) /\ PlainQuery(search_term)) =>
        /\ filtered.kind = "ok"
        /\ \A k \in 1..Len(filtered.df.rows) :
              \E col \in ScopedColumns(df, search_columns) :
                  filtered.df.rows[k].c[col].t # "nan"

\* C4: filtering is idempotent: applying search_dataframe with the same
\* query and scope to its own result completes without error and returns
\* that result, rows and order unchanged.
C4_Idempotent ==
    ncalls = 2 => (filtered.kind = "ok" /\ filtered.df = df)

(***************************************************************************)
(* Properties of the Home page (under SpecSession).                        *)
(***************************************************************************)
PleaseStart == Element("error", "Please start a session first", <<>>)

\* C5: an Analyze request made while no start_session has ever succeeded
\* issues no remote call and opens no stream, and analysis_stream puts the
\* 'please start a session' error in the response placeholder.
C5_NoSessionNoRemoteCall ==
    (last_action \in {"analyze", "analyze_empty"} /\ ~started_ok) =>
        /\ remote = <<>>
        /\ stream = "none"
        /\ last_action = "analyze" => placeholder = PleaseStart

\* C5 witness: Analyze was pressed with a question after a failed start.
C5_Witness ==
    /\ last_action = "analyze"
    /\ ~started_ok
    /\ last_start = "failed"
    /\ placeholder = PleaseStart

\* C6: the session is marked active only if the most recent start_session
\* obtained an assistant handle and uploaded files.
C6_ActiveOnlyAfterSuccess ==
    SessionActive => last_start = "ok"

\* C7: once a failure of the stream has been handled, the fragments
\* received before it are still shown in the response placeholder.
C7_PartialOutputStaysVisible ==
    (stream = "failed" /\ response_text # <<>>) =>
        /\ placeholder.kind = "markdown"
        /\ Len(placeholder.text) >= Len(response_text)
        /\ SubSeq(placeholder.text, 1, Len(response_text)) = response_text

\* C11: a run is only ever issued with the assistant handle created by the
\* most recent Start Session: that start succeeded, and the handle of the
\* run is the one it created (the latest one created).
C11_RunUsesLatestSessionHandle ==
    \A k \in 1..Len(remote) :
        remote[k].op = "runs.stream" =>
            /\ last_start = "ok"
            /\ remote[k].arg = created

(***************************************************************************)
(* Properties of load_csv_data and the data pages (under SpecPages).       *)
(***************************************************************************)
\* The entry of a load that found its file.
Loaded(entry) == entry.present /\ NotFoundMessage \notin {entry.messages[k] : k \in 1..Len(entry.messages)}

\* C8: once load_csv_data has loaded a file, its entry is never replaced
\* or evicted, and every later call with that name returns the entry's
\* table without reading the file.
C8_CachedLoadIsStable ==
    [][\A f \in Files :
          Loaded(cache[f]) =>
              /\ cache'[f] = cache[f]
              /\ (last_load' # last_load /\ last_load'.file = f) =>
                    /\ last_load'.value = cache[f].value
                    /\ ~last_load'.read]_vars

\* C8 witness: a call was served from the entry of an earlier successful
\* load, with another dataset cached as well.
C8_Witness ==
    /\ last_load.hit
    /\ ~df_empty(last_load.value)
    /\ Cardinality({f \in Files : cache[f].present}) >= 2

\* C9: a load that finds its file absent returns an empty table with the
\* not-found message, and the page shows its 'no data available' state,
\* with no table, no metrics and no exception.
C9_AbsentFileShowsNoData ==
    last_load.exists = "no" =>
        /\ last_load.value = EmptyDataFrame
        /\ last_load.messages = <<NotFoundMessage>>
        /\ FileOf(view.page) = last_load.file
        /\ view.state = "nodata"
        /\ view.messages = <<NotFoundMessage>>
        /\ view.table = EmptyDataFrame
        /\ view.metrics = <<>>

\* C9 witness: a page was rendered whose file was absent.
C9_Witness ==
    /\ last_load.exists = "no"
    /\ view.page = "Accounts"
    /\ view.state = "nodata"

\* The sum and mean metrics of a page: position and target column.
SumMeanMetrics(page) ==
    CASE page = "Accounts"  -> {<<3, "current_balance">>}
      [] page = "Services"  -> {<<3, "UnitPrice">>}
      [] page = "Customers" -> {<<3, "Balance">>}
      [] page = "Invoices"  -> {<<2, "TotalAmt">>, <<3, "Balance">>}
      [] page = "Vendors"   -> {<<3, "Balance">>}
      [] page = "Bills"     -> {<<2, "TotalAmt">>, <<3, "Balance">>}
      [] page = "Expenses"  -> {<<2, "TotalAmt">>}
      [] OTHER              -> {}

\* C10: on every page, a sum or mean metric whose column is absent from
\* the loaded table shows the 'not applicable' sentinel.
C10_AbsentColumnNotApplicable ==
    view.state = "data" =>
        \A m \in SumMeanMetrics(view.page) :
            m[2] \notin last_load.value.columns =>
                view.metrics[m[1]].value = NotApplicable

\* C12: on every data page whose table loaded, whatever the search term,
\* the metrics shown are those the page shows for the empty search term.
C12_MetricsIgnoreSearch ==
    (view.page \in Pages /\ ~df_empty(last_load.value)) =>
        view.metrics = render_page(view.page, last_load, <<>>).metrics

====
